---- MODULE Spec2Model ----
(***************************************************************************)
(* Light schedule service: the LightConfig aggregate (models.py), the time *)
(* conversion helpers (utils.py) and the GET handler (lights_get_lambda).  *)
(*                                                                         *)
(* Python values are represented as follows.                               *)
(*   str            a sequence of one-character strings, "19:30" is        *)
(*                  <<"1","9",":","3","0">>, so that split, int() and the  *)
(*                  f-string formatting are computed and not assumed.      *)
(*   None / absent  the empty sequence <<>>; a present value v is <<v>>.   *)
(*   JSON scalar    [t |-> "int", n |-> 5, s |-> <<>>] or                   *)
(*                  [t |-> "str", n |-> 0, s |-> chars].                   *)
(*   a call that may raise returns a record with ok |-> FALSE on raise.    *)
(***************************************************************************)
EXTENDS Integers, Sequences, FiniteSets, TLC

VARIABLES now, wire, config, loaded, prev, last, steps, floor_run,
          s3_object, event, get, post, hist

cfgVars == <<wire, config, loaded, prev, last, steps>>
floorVars == <<floor_run>>
getVars == <<s3_object, event, get>>
postVars == <<post, hist>>
vars == <<now, wire, config, loaded, prev, last, steps, floor_run, s3_object, event, get,
          post, hist>>

None == <<>>
Some(v) == <<v>>

(***************************************************************************)
(* Bounds of the model.                                                    *)
(***************************************************************************)
MaxEntries == 2
MaxOps == 2
MaxRequests == 3

(***************************************************************************)
(* Strings: split(':'), int(), f"{n:02d}".                                 *)
(***************************************************************************)
Digits == <<"0", "1", "2", "3", "4", "5", "6", "7", "8", "9">>

IsDigit(c) == \E i \in 1..10 : Digits[i] = c

DigitVal(c) == (CHOOSE i \in 1..10 : Digits[i] = c) - 1

RECURSIVE split(_, _)
split(s, sep) ==
    IF \A i \in 1..Len(s) : s[i] # sep
    THEN <<s>>
    ELSE LET k == CHOOSE i \in 1..Len(s) : s[i] = sep /\ \A j \in 1..(i - 1) : s[j] # sep
         IN  <<SubSeq(s, 1, k - 1)>> \o split(SubSeq(s, k + 1, Len(s)), sep)

RECURSIVE strip(_)
strip(s) ==
    IF Len(s) = 0 THEN s
    ELSE IF s[1] = " " THEN strip(Tail(s))
    ELSE IF s[Len(s)] = " " THEN strip(SubSeq(s, 1, Len(s) - 1))
    ELSE s

RECURSIVE DecVal(_)
DecVal(ds) == IF Len(ds) = 0 THEN 0
              ELSE 10 * DecVal(SubSeq(ds, 1, Len(ds) - 1)) + DigitVal(ds[Len(ds)])

ValueError == [ok |-> FALSE, val |-> 0]
Ok(v) == [ok |-> TRUE, val |-> v]

\* The digits of an int() literal, after the sign.
int_digits(negative, body) ==
    IF Len(body) = 0 \/ \E i \in 1..Len(body) : ~IsDigit(body[i])
    THEN ValueError
    ELSE Ok((IF negative THEN -1 ELSE 1) * DecVal(body))

int_stripped(t) ==
    IF Len(t) > 0 /\ t[1] \in {"+", "-"}
    THEN int_digits(t[1] = "-", Tail(t))
    ELSE int_digits(FALSE, t)

\* int(str): surrounding blanks stripped, one optional sign, then digits only.
py_int_str(s) == int_stripped(strip(s))

RECURSIVE dec(_)
dec(n) == IF n < 10 THEN <<Digits[n + 1]>>
          ELSE dec(n \div 10) \o <<Digits[(n % 10) + 1]>>

\* f"{n:02d}": sign, then digits, zero-padded to a total width of two.
fmt02d(n) == IF n < 0 THEN <<"-">> \o dec(0 - n)
             ELSE IF n < 10 THEN <<"0">> \o dec(n)
             ELSE dec(n)

\* f"{hours:02d}:{minutes:02d}", and strftime("%H:%M") on a valid clock time.
hhmm(h, m) == fmt02d(h) \o <<":">> \o fmt02d(m)

\* list(map(int, s.split(':'))): raises when any part is not an integer.
all_ints(ints) ==
    IF \E i \in 1..Len(ints) : ~ints[i].ok
    THEN [ok |-> FALSE, val |-> <<>>]
    ELSE [ok |-> TRUE, val |-> [i \in 1..Len(ints) |-> ints[i].val]]

map_int(parts) == all_ints([i \in 1..Len(parts) |-> py_int_str(parts[i])])

int_parts(s) == map_int(split(s, ":"))

(***************************************************************************)
(* utils.py                                                                *)
(***************************************************************************)
SecondsPerDay == 86400

\* convert_to_unix_timestamp, reading the clock as `clock`.
\* The local date of `clock` under the offset, combined with hour and minute
\* p and converted back to UTC; p is list(map(int, time_str.split(":"))).
local_time_to_utc(p, utc_offset_seconds, clock) ==
    IF ~p.ok \/ Len(p.val) # 2 THEN ValueError
    ELSE IF p.val[1] \notin 0..23 \/ p.val[2] \notin 0..59 THEN ValueError
    ELSE IF utc_offset_seconds <= 0 - SecondsPerDay \/ utc_offset_seconds >= SecondsPerDay
         THEN ValueError
    ELSE Ok(((clock + utc_offset_seconds) \div SecondsPerDay) * SecondsPerDay
            + p.val[1] * 3600 + p.val[2] * 60 - utc_offset_seconds)

convert_to_unix_timestamp(time_str, utc_offset_seconds, clock) ==
    local_time_to_utc(int_parts(time_str), utc_offset_seconds, clock)

(***************************************************************************)
(* JSON values as the handlers see them after json.loads.                  *)
(***************************************************************************)
JInt(n) == [t |-> "int", n |-> n, s |-> <<>>]
JStr(s) == [t |-> "str", n |-> 0, s |-> s]

\* int(v) on a JSON scalar.
py_int(v) == IF v.t = "int" THEN Ok(v.n) ELSE py_int_str(v.s)

\* str(v) on a JSON scalar.
py_str(v) == IF v.t = "str" THEN v.s
             ELSE IF v.n < 0 THEN <<"-">> \o dec(0 - v.n) ELSE dec(v.n)

\* mapping.get(key, default) on an optional key.
dict_get(opt, default) == IF opt = None THEN default ELSE opt[1]

(***************************************************************************)
(* models.py: constants                                                    *)
(***************************************************************************)
DEFAULT_BED_TIME == <<"2", "3", ":", "0", "0">>
DEFAULT_NIGHT_TIME == <<"2", "3", ":", "3", "0">>

DaylightBrightness_swapped ==
    [sunrise |-> <<75, 100>>, sunset |-> <<75, 100>>,
     civil_twilight_begin |-> <<100, 0>>, civil_twilight_end |-> <<25, 0>>,
     bed_time |-> <<25, 0>>, night_time |-> <<100, 0>>]

\* (warm, cool) per event.
DaylightBrightness ==
    [sunrise |-> <<75, 100>>, sunset |-> <<75, 100>>,
     civil_twilight_begin |-> <<25, 0>>, civil_twilight_end |-> <<100, 0>>,
     bed_time |-> <<100, 0>>, night_time |-> <<25, 0>>]

DEFAULT_MODE == "dayNight"
MIN_SUNSET_TIME == <<"1", "9", ":", "3", "0">>
TWILIGHT_END_OFFSET == 30

STANDARD_LABELS == {"civil_twilight_begin", "sunrise", "sunset",
                    "civil_twilight_end", "bed_time", "night_time"}

\* Labels a wire entry may carry that are not standard ones.
OtherLabels == {"custom_foo"}

\* Attribute names an instance may come to hold through setattr.
AttrNames == STANDARD_LABELS \cup OtherLabels

ScheduleItem(time, unixTime, warm, cool) ==
    [time |-> time, unixTime |-> unixTime, warmBrightness |-> warm, coolBrightness |-> cool]

\* LightConfig.__init__: every named slot is None.
LightConfig(mode) == [mode |-> mode, attrs |-> [a \in AttrNames |-> None]]

create_empty == LightConfig(DEFAULT_MODE)

(***************************************************************************)
(* models.py: from_dict                                                    *)
(***************************************************************************)
\* `not data`: None, {} or [].
Falsy(data) ==
    \/ data.shape = "none"
    \/ data.shape = "list" /\ data.len = 0
    \/ data.shape = "dict" /\ data.mode = None /\ data.brightnessSchedule = None
       /\ data.cached_timezone_offset = None /\ data.serverTime = None

\* ScheduleItem(time=..., unixTime=..., ...) from the converted fields; a field
\* whose conversion raised makes the construction raise.
item_of_fields(time, f) ==
    IF \A i \in 1..3 : f[i].ok
    THEN [ok |-> TRUE, item |-> ScheduleItem(time, f[1].val, f[2].val, f[3].val)]
    ELSE [ok |-> FALSE, item |-> ScheduleItem(<<>>, 0, 0, 0)]

entry_numbers(entry) == <<entry.unixTime, entry.warmBrightness, entry.coolBrightness>>

item_of_entry_swapped(entry) ==
    item_of_fields(py_str(dict_get(entry.time, JStr(<<>>))),
                   [i \in 1..3 |-> py_int(dict_get(
                       <<entry.unixTime, entry.coolBrightness, entry.warmBrightness>>[i],
                       JInt(0)))])

\* ScheduleItem(time=str(...), unixTime=int(...), ...) of one wire entry.
item_of_entry(entry) ==
    item_of_fields(py_str(dict_get(entry.time, JStr(<<>>))),
                   [i \in 1..3 |-> py_int(dict_get(entry_numbers(entry)[i], JInt(0)))])

label_accepted_any(label) == label # None /\ label[1] \in AttrNames

\* The label test of the loop: a string that is one of STANDARD_LABELS.
label_accepted(label) == label # None /\ label[1] \in STANDARD_LABELS

\* The loop over brightnessSchedule, entries i..Len in order; a later entry with
\* the same label overwrites the earlier one.
RECURSIVE from_dict_loop(_, _, _), from_dict_set(_, _, _, _)
from_dict_loop(cfg, entries, i) ==
    IF i > Len(entries) THEN [ok |-> TRUE, cfg |-> cfg]
    ELSE IF ~label_accepted(entries[i].label) THEN from_dict_loop(cfg, entries, i + 1)
    ELSE from_dict_set(cfg, entries, i, item_of_entry(entries[i]))

\* setattr(config, label, ScheduleItem(...)) and the rest of the loop.
from_dict_set(cfg, entries, i, it) ==
    IF ~it.ok THEN [ok |-> FALSE, cfg |-> cfg]
    ELSE from_dict_loop([cfg EXCEPT !.attrs[entries[i].label[1]] = Some(it.item)],
                        entries, i + 1)

StrMode(m) == [isStr |-> TRUE, s |-> m]

\* mode_raw if isinstance(mode_raw, str) else DEFAULT_MODE
mode_of(mode_raw) == IF mode_raw.isStr THEN mode_raw.s ELSE DEFAULT_MODE

\* The scan of brightnessSchedule, when it is a list.
from_dict_schedule(config0, brightness_schedule) ==
    IF brightness_schedule # None /\ brightness_schedule[1].isList
    THEN from_dict_loop(config0, brightness_schedule[1].items, 1)
    ELSE [ok |-> TRUE, cfg |-> config0]

from_dict(data) ==
    IF Falsy(data) THEN [ok |-> TRUE, cfg |-> create_empty]
    ELSE IF data.shape # "dict" THEN [ok |-> FALSE, cfg |-> create_empty]
    ELSE from_dict_schedule(LightConfig(mode_of(dict_get(data.mode, StrMode(DEFAULT_MODE)))),
                            data.brightnessSchedule)

(***************************************************************************)
(* models.py: build_brightness_schedule, to_dict                           *)
(***************************************************************************)
\* Iteration order of field_label_map.
field_label_map == <<"civil_twilight_begin", "sunrise", "sunset",
                     "civil_twilight_end", "bed_time", "night_time">>

BrightnessScheduleEntry(item, label) ==
    [label |-> Some(label), time |-> Some(JStr(item.time)),
     unixTime |-> Some(JInt(item.unixTime)),
     warmBrightness |-> Some(JInt(item.warmBrightness)),
     coolBrightness |-> Some(JInt(item.coolBrightness))]

RECURSIVE collect_entries(_, _)
collect_entries(cfg, i) ==
    IF i > Len(field_label_map) THEN <<>>
    ELSE (IF cfg.attrs[field_label_map[i]] # None
          THEN <<BrightnessScheduleEntry(cfg.attrs[field_label_map[i]][1], field_label_map[i])>>
          ELSE <<>>) \o collect_entries(cfg, i + 1)

sort_key(e) == e.unixTime[1].n

\* list.sort(key=...) is stable: an entry goes after every entry whose key is
\* not greater than its own.
RECURSIVE insert_sorted(_, _)
insert_sorted(sorted, e) ==
    IF Len(sorted) = 0 THEN <<e>>
    ELSE IF sort_key(sorted[Len(sorted)]) <= sort_key(e) THEN Append(sorted, e)
    ELSE Append(insert_sorted(SubSeq(sorted, 1, Len(sorted) - 1), e), sorted[Len(sorted)])

RECURSIVE sort_by_unixTime(_)
sort_by_unixTime(entries) ==
    IF Len(entries) = 0 THEN <<>>
    ELSE insert_sorted(sort_by_unixTime(SubSeq(entries, 1, Len(entries) - 1)),
                       entries[Len(entries)])

build_brightness_schedule_unsorted(cfg) == collect_entries(cfg, 1)

build_brightness_schedule(cfg) == sort_by_unixTime(collect_entries(cfg, 1))

to_dict(cfg, clock) ==
    [shape |-> "dict", len |-> 0,
     mode |-> Some([isStr |-> TRUE, s |-> cfg.mode]),
     serverTime |-> Some(clock),
     brightnessSchedule |-> Some([isList |-> TRUE, items |-> build_brightness_schedule(cfg)]),
     cached_timezone_offset |-> None]

(***************************************************************************)
(* models.py: the merge engine and the two updates                         *)
(***************************************************************************)
NoItem == ScheduleItem(<<>>, 0, 0, 0)

\* The item __create_or_update_schedule_item returns, unix_time being the
\* result of convert_to_unix_timestamp(time, timezone_offset).
merged_item(existing_item, time, unix_time, default_bright_warm, default_bright_cool) ==
    IF ~unix_time.ok THEN [ok |-> FALSE, item |-> NoItem]
    ELSE IF existing_item # None
    THEN [ok |-> TRUE,
          item |-> ScheduleItem(time, unix_time.val, existing_item[1].warmBrightness,
                                existing_item[1].coolBrightness)]
    ELSE [ok |-> TRUE,
          item |-> ScheduleItem(time, unix_time.val, default_bright_warm, default_bright_cool)]

create_or_update_schedule_item_reset(existing_item, time, timezone_offset, default_bright_warm, default_bright_cool, clock) ==
    merged_item(None, time, convert_to_unix_timestamp(time, timezone_offset, clock),
                default_bright_warm, default_bright_cool)

\* __create_or_update_schedule_item: an existing item keeps its brightness.
create_or_update_schedule_item(existing_item, time, timezone_offset, default_bright_warm, default_bright_cool, clock) ==
    merged_item(existing_item, time, convert_to_unix_timestamp(time, timezone_offset, clock),
                default_bright_warm, default_bright_cool)

\* self.<label> = ScheduleItem(time=DEFAULT, unixTime=..., default brightness)
sleep_slot_created(cfg, label, default_time, unix_time) ==
    IF ~unix_time.ok THEN [raised |-> TRUE, cfg |-> cfg]
    ELSE [raised |-> FALSE,
          cfg |-> [cfg EXCEPT !.attrs[label] =
                      Some(ScheduleItem(default_time, unix_time.val,
                                        DaylightBrightness[label][1],
                                        DaylightBrightness[label][2]))]]

\* self.<label>['unixTime'] = ...
sleep_slot_refreshed(cfg, label, unix_time) ==
    IF ~unix_time.ok THEN [raised |-> TRUE, cfg |-> cfg]
    ELSE [raised |-> FALSE,
          cfg |-> [cfg EXCEPT !.attrs[label] =
                      Some([cfg.attrs[label][1] EXCEPT !.unixTime = unix_time.val])]]

\* One of the two halves of update_sleep_times, for the slot `label`.
update_sleep_slot(cfg, label, default_time, timezone_offset, clock) ==
    IF cfg.attrs[label] = None
    THEN sleep_slot_created(cfg, label, default_time,
                            convert_to_unix_timestamp(default_time, timezone_offset, clock))
    ELSE sleep_slot_refreshed(cfg, label,
                              convert_to_unix_timestamp(cfg.attrs[label][1].time,
                                                        timezone_offset, clock))

\* The night_time half, which a raise in the bed_time half never reaches.
then_night_time(bed, timezone_offset, clock) ==
    IF bed.raised THEN bed
    ELSE update_sleep_slot(bed.cfg, "night_time", DEFAULT_NIGHT_TIME, timezone_offset, clock)

update_sleep_times_retime(cfg, timezone_offset, clock) ==
    then_night_time(
        update_sleep_slot([cfg EXCEPT !.attrs["bed_time"] = None, !.attrs["night_time"] = None],
                          "bed_time", DEFAULT_BED_TIME, timezone_offset, clock),
        timezone_offset, clock)

\* update_sleep_times: bed_time first, then night_time; a raise in the second
\* half leaves the first half's assignment in place.
update_sleep_times(cfg, timezone_offset, clock) ==
    then_night_time(
        update_sleep_slot(cfg, "bed_time", DEFAULT_BED_TIME, timezone_offset, clock),
        timezone_offset, clock)

EnforceRaised == [ok |-> FALSE, time |-> <<>>, adjusted |-> FALSE]

enforce_parts_inclusive(time_str, minimum_time, t, m) ==
    IF ~t.ok \/ ~m.ok \/ Len(t.val) < 2 \/ Len(m.val) < 2 THEN EnforceRaised
    ELSE IF t.val[1] * 60 + t.val[2] <= m.val[1] * 60 + m.val[2]
    THEN [ok |-> TRUE, time |-> minimum_time, adjusted |-> TRUE]
    ELSE [ok |-> TRUE, time |-> time_str, adjusted |-> FALSE]

\* The comparison in minutes; t and m are the integer parts of the two times.
enforce_parts(time_str, minimum_time, t, m) ==
    IF ~t.ok \/ ~m.ok \/ Len(t.val) < 2 \/ Len(m.val) < 2 THEN EnforceRaised
    ELSE IF t.val[1] * 60 + t.val[2] < m.val[1] * 60 + m.val[2]
    THEN [ok |-> TRUE, time |-> minimum_time, adjusted |-> TRUE]
    ELSE [ok |-> TRUE, time |-> time_str, adjusted |-> FALSE]

enforce_minimum_time_inclusive(time_str, minimum_time) ==
    enforce_parts_inclusive(time_str, minimum_time, int_parts(time_str), int_parts(minimum_time))

\* __enforce_minimum_time: (adjusted_time, was_adjusted); raises on a part that
\* is no integer or on fewer than two parts.
enforce_minimum_time(time_str, minimum_time) ==
    enforce_parts(time_str, minimum_time, int_parts(time_str), int_parts(minimum_time))

\* f"{hours:02d}:{minutes:02d}" of the total minutes.
format_minutes(total_minutes) == hhmm(total_minutes \div 60, total_minutes % 60)

twilight_end_of_parts(p) ==
    IF ~p.ok \/ Len(p.val) < 2 THEN [ok |-> FALSE, time |-> <<>>]
    ELSE [ok |-> TRUE, time |-> format_minutes(p.val[1] * 60 + p.val[2] + TWILIGHT_END_OFFSET)]

\* __adjust_twilight_end: no wrap at 24 hours.
adjust_twilight_end(sunset_time) == twilight_end_of_parts(int_parts(sunset_time))

\* The four assignments of update_daylight_times, in the order of the code;
\* todo is a sequence of <<label, time>>. A raise keeps the earlier assignments.
RECURSIVE assign_daylight(_, _, _, _), assign_daylight_item(_, _, _, _, _)
assign_daylight(cfg, todo, timezone_offset, clock) ==
    IF Len(todo) = 0 THEN [raised |-> FALSE, cfg |-> cfg]
    ELSE assign_daylight_item(cfg, todo, timezone_offset, clock,
             create_or_update_schedule_item(
                 cfg.attrs[todo[1][1]], todo[1][2], timezone_offset,
                 DaylightBrightness[todo[1][1]][1], DaylightBrightness[todo[1][1]][2], clock))

assign_daylight_item(cfg, todo, timezone_offset, clock, r) ==
    IF ~r.ok THEN [raised |-> TRUE, cfg |-> cfg]
    ELSE assign_daylight([cfg EXCEPT !.attrs[todo[1][1]] = Some(r.item)],
                         Tail(todo), timezone_offset, clock)

\* Lines 255-273, with the adjusted sunset and twilight end.
daylight_assignments(cfg, sunrise, adjusted_sunset, twilight_begin, adjusted_twilight_end, timezone_offset, clock) ==
    IF ~adjusted_twilight_end.ok THEN [raised |-> TRUE, cfg |-> cfg]
    ELSE assign_daylight(cfg,
             << <<"sunrise", sunrise>>, <<"sunset", adjusted_sunset>>,
                <<"civil_twilight_begin", twilight_begin>>,
                <<"civil_twilight_end", adjusted_twilight_end.time>> >>,
             timezone_offset, clock)

daylight_adjusted_always(cfg, sunrise, e, twilight_begin, twilight_end, timezone_offset, clock) ==
    IF ~e.ok THEN [raised |-> TRUE, cfg |-> cfg]
    ELSE daylight_assignments(cfg, sunrise, e.time, twilight_begin,
                              adjust_twilight_end(e.time), timezone_offset, clock)

\* Lines 249-253: the twilight end is derived only if the sunset was adjusted;
\* e is the result of __enforce_minimum_time.
daylight_adjusted(cfg, sunrise, e, twilight_begin, twilight_end, timezone_offset, clock) ==
    IF ~e.ok THEN [raised |-> TRUE, cfg |-> cfg]
    ELSE daylight_assignments(cfg, sunrise, e.time, twilight_begin,
                              IF e.adjusted THEN adjust_twilight_end(e.time)
                              ELSE [ok |-> TRUE, time |-> twilight_end],
                              timezone_offset, clock)

update_daylight_times_always_derive(cfg, sunrise, sunset, twilight_begin, twilight_end, timezone_offset, clock) ==
    daylight_adjusted_always(cfg, sunrise, enforce_minimum_time(sunset, MIN_SUNSET_TIME),
                             twilight_begin, twilight_end, timezone_offset, clock)

update_daylight_times(cfg, sunrise, sunset, twilight_begin, twilight_end, timezone_offset, clock) ==
    daylight_adjusted(cfg, sunrise, enforce_minimum_time(sunset, MIN_SUNSET_TIME),
                      twilight_begin, twilight_end, timezone_offset, clock)

(***************************************************************************)
(* Inputs of the LightConfig life cycle                                    *)
(***************************************************************************)
Entry(label, time, unixTime, warm, cool) ==
    [label |-> label, time |-> time, unixTime |-> unixTime,
     warmBrightness |-> warm, coolBrightness |-> cool]

\* Wire entries: hand-tuned brightness, unixTime values out of slot order and
\* tied, a repeated label, a numeric field sent as a string, an entry without
\* time and unixTime, and an entry with an unrecognized label.
Catalogue ==
    { Entry(Some("sunrise"), Some(JStr(hhmm(7, 0))), Some(JInt(2000)),
            Some(JInt(50)), Some(JInt(80))),
      Entry(Some("sunrise"), Some(JStr(hhmm(6, 0))), Some(JStr(<<"5", "0", "0">>)),
            Some(JInt(10)), Some(JInt(5))),
      Entry(Some("sunset"), Some(JStr(hhmm(19, 30))), Some(JInt(3000)),
            Some(JInt(60)), Some(JInt(90))),
      Entry(Some("civil_twilight_end"), Some(JStr(hhmm(20, 0))), Some(JInt(4000)),
            Some(JInt(70)), Some(JInt(15))),
      Entry(Some("bed_time"), Some(JStr(hhmm(22, 15))), Some(JInt(1000)),
            Some(JInt(80)), Some(JInt(10))),
      Entry(Some("night_time"), None, None, Some(JInt(15)), Some(JInt(0))),
      Entry(Some("custom_foo"), Some(JStr(hhmm(12, 0))), Some(JInt(9999)),
            Some(JInt(50)), Some(JInt(50))) }

\* brightnessSchedule arrays: up to MaxEntries different entries, in any order.
Schedules ==
    {sch \in UNION {[1..n -> Catalogue] : n \in 0..MaxEntries} :
        \A i, j \in 1..Len(sch) : i # j => sch[i] # sch[j]}

NoneData ==
    [shape |-> "none", len |-> 0, mode |-> None, serverTime |-> None,
     brightnessSchedule |-> None, cached_timezone_offset |-> None]

Dict(mode, schedule, cached) ==
    [shape |-> "dict", len |-> 0, mode |-> mode, serverTime |-> None,
     brightnessSchedule |-> schedule, cached_timezone_offset |-> cached]

JList(items) == [isList |-> TRUE, items |-> items]
NotAList == [isList |-> FALSE, items |-> <<>>]
NotAString == [isStr |-> FALSE, s |-> ""]
Wires ==
    {NoneData, Dict(None, None, None), Dict(None, Some(NotAList), None),
     Dict(Some(StrMode("bogus")), None, None), Dict(Some(NotAString), Some(JList(<<>>)), None)}
    \cup {Dict(Some(StrMode("scheduled")), Some(JList(sch)), None) : sch \in Schedules}

Offsets == {0, 18000}

\* 22:00 UTC on day 1000; one tick is three hours, past midnight UTC.
Clock0 == 1000 * SecondsPerDay + 22 * 3600
TickSeconds == 3 * 3600

\* (sunrise, sunset, twilight_begin, twilight_end) as get_daylight_times returns
\* them, sunset before, at and after the floor, each with the offset of the call.
DaylightCalls ==
    { <<<<hhmm(6, 45), hhmm(18, 0), hhmm(6, 15), hhmm(18, 30)>>, 0>>,
      <<<<hhmm(6, 45), hhmm(18, 0), hhmm(6, 15), hhmm(18, 30)>>, 18000>>,
      <<<<hhmm(6, 45), hhmm(19, 30), hhmm(6, 15), hhmm(19, 58)>>, 0>>,
      <<<<hhmm(6, 45), hhmm(20, 15), hhmm(6, 15), hhmm(20, 45)>>, 18000>> }

NoArgs == <<<<>>, <<>>, <<>>, <<>>>>

Call(op, args, offset, clock, raised) ==
    [op |-> op, args |-> args, offset |-> offset, clock |-> clock, raised |-> raised]

(***************************************************************************)
(* Idle values of the variables a specification does not use               *)
(***************************************************************************)
CfgIdle ==
    /\ wire = NoneData
    /\ config = create_empty
    /\ loaded = create_empty
    /\ prev = create_empty
    /\ last = Call("none", NoArgs, 0, 0, FALSE)
    /\ steps = 0

FloorIdle == floor_run = [stage |-> 0, h |-> 0, m |-> 0, fh |-> 0, fm |-> 0,
                          first |-> None, second |-> None]

GetIdle ==
    /\ s3_object = <<>>
    /\ event = <<>>
    /\ get = <<>>

\* No POST request is in progress.
NoPost ==
    [pc |-> "idle", method |-> "", token |-> "", raw |-> <<>>, body |-> <<>>,
     validated |-> FALSE, error |-> None, existing |-> None, response |-> None, puts |-> 0]

\* The record of the requests so far: the puts to the store in order, each with
\* the number of puts that preceded its writer's read; the number of puts that
\* preceded the read of the GET and of the POST in progress; the offsets the
\* geolocation lookups have returned; the stored object at the start.
History(store0) ==
    [writes |-> <<>>, get_read |-> 0, post_read |-> 0, lookups |-> {},
     store0 |-> store0, requests |-> 0]

PostIdle ==
    /\ post = NoPost
    /\ hist = History(<<>>)

(***************************************************************************)
(* Spec: one LightConfig instance, loaded by from_dict and then updated    *)
(***************************************************************************)
Init ==
    /\ now = Clock0
    /\ wire \in Wires
    /\ from_dict(wire).ok
    /\ config = from_dict(wire).cfg
    /\ loaded = config
    /\ prev = config
    /\ last = Call("from_dict", NoArgs, 0, now, FALSE)
    /\ steps = 0
    /\ FloorIdle
    /\ GetIdle
    /\ PostIdle

\* The instance after an update that returned or raised, and the call on record.
Updated(r, op, args, offset) ==
    /\ config' = r.cfg
    /\ last' = Call(op, args, offset, now, r.raised)

UpdateSleepTimes(offset) ==
    /\ steps < MaxOps
    /\ Updated(update_sleep_times(config, offset, now), "update_sleep_times", NoArgs, offset)
    /\ prev' = config
    /\ steps' = steps + 1
    /\ UNCHANGED <<now, wire, loaded, floorVars, getVars, postVars>>

UpdateDaylightTimes(d, offset) ==
    /\ steps < MaxOps
    /\ Updated(update_daylight_times(config, d[1], d[2], d[3], d[4], offset, now),
               "update_daylight_times", d, offset)
    /\ prev' = config
    /\ steps' = steps + 1
    /\ UNCHANGED <<now, wire, loaded, floorVars, getVars, postVars>>

Loaded(r) ==
    /\ r.ok
    /\ config' = r.cfg
    /\ loaded' = r.cfg

\* from_dict(to_dict(cfg)): the response of one request read back.
RoundTrip ==
    /\ steps < MaxOps
    /\ wire' = to_dict(config, now)
    /\ Loaded(from_dict(wire'))
    /\ prev' = config
    /\ last' = Call("round_trip", NoArgs, 0, now, FALSE)
    /\ steps' = steps + 1
    /\ UNCHANGED <<now, floorVars, getVars, postVars>>

\* Time passes between two calls.
Tick ==
    /\ steps < MaxOps
    /\ now' = now + TickSeconds
    /\ steps' = steps + 1
    /\ UNCHANGED <<wire, config, loaded, prev, last, floorVars, getVars, postVars>>

Next ==
    \/ \E offset \in Offsets : UpdateSleepTimes(offset)
    \/ \E c \in DaylightCalls : UpdateDaylightTimes(c[1], c[2])
    \/ RoundTrip
    \/ Tick

Spec == Init /\ [][Next]_vars

(***************************************************************************)
(* SpecFloor: __enforce_minimum_time on clock times, applied to a sunset   *)
(* and then to its own output                                              *)
(***************************************************************************)
FloorHours == {0, 18, 19, 20, 23}
FloorMinutes == {0, 29, 30, 31, 59}

InitFloor ==
    /\ now = Clock0
    /\ CfgIdle
    /\ GetIdle
    /\ PostIdle
    /\ floor_run \in {[stage |-> 0, h |-> h, m |-> m, fh |-> fh, fm |-> fm,
                       first |-> None, second |-> None] :
                         h \in FloorHours, m \in FloorMinutes,
                         fh \in FloorHours, fm \in FloorMinutes}

EnforceOnce ==
    /\ floor_run.stage = 0
    /\ floor_run' = [floor_run EXCEPT
                        !.stage = 1,
                        !.first = Some(enforce_minimum_time(hhmm(floor_run.h, floor_run.m),
                                                            hhmm(floor_run.fh, floor_run.fm)))]
    /\ floor_run'.first[1].ok
    /\ UNCHANGED <<now, cfgVars, getVars, postVars>>

EnforceAgain ==
    /\ floor_run.stage = 1
    /\ floor_run' = [floor_run EXCEPT
                        !.stage = 2,
                        !.second = Some(enforce_minimum_time(floor_run.first[1].time,
                                                             hhmm(floor_run.fh, floor_run.fm)))]
    /\ floor_run'.second[1].ok
    /\ UNCHANGED <<now, cfgVars, getVars, postVars>>

NextFloor == EnforceOnce \/ EnforceAgain

SpecFloor == InitFloor /\ [][NextFloor]_vars

(***************************************************************************)
(* Properties of the LightConfig life cycle                                *)
(***************************************************************************)
DaylightLabels == {"sunrise", "sunset", "civil_twilight_begin", "civil_twilight_end"}
SleepLabels == {"bed_time", "night_time"}

\* Minutes since midnight of a clock time "HH:MM".
MinutesOf(t) == int_parts(t).val[1] * 60 + int_parts(t).val[2]

FloorMinutesOfDay == 19 * 60 + 30

EntriesLabelled(out, l) == {i \in 1..Len(out) : out[i].label = Some(l)}

\* C1: every named slot that from_dict populated keeps its warmBrightness and
\* coolBrightness through any sequence of update_daylight_times and
\* update_sleep_times calls, and build_brightness_schedule reports exactly those
\* values, once, under the slot's label.
C1_BrightnessPreserved ==
    \A l \in STANDARD_LABELS :
        loaded.attrs[l] # None =>
            /\ config.attrs[l] # None
            /\ config.attrs[l][1].warmBrightness = loaded.attrs[l][1].warmBrightness
            /\ config.attrs[l][1].coolBrightness = loaded.attrs[l][1].coolBrightness
            /\ LET out == build_brightness_schedule(config)
               IN  /\ Cardinality(EntriesLabelled(out, l)) = 1
                   /\ \A i \in EntriesLabelled(out, l) :
                        /\ out[i].warmBrightness = Some(JInt(loaded.attrs[l][1].warmBrightness))
                        /\ out[i].coolBrightness = Some(JInt(loaded.attrs[l][1].coolBrightness))

\* A loaded sunrise with hand-tuned brightness has been given a new time, and a
\* loaded bed_time a new unixTime.
C1_Witness ==
    /\ loaded.attrs["sunrise"] # None
    /\ loaded.attrs["bed_time"] # None
    /\ loaded.attrs["sunrise"][1].warmBrightness = 50
    /\ config.attrs["sunrise"][1].time # loaded.attrs["sunrise"][1].time
    /\ config.attrs["bed_time"][1].unixTime # loaded.attrs["bed_time"][1].unixTime

\* C2: update_sleep_times leaves mode and the four daylight slots as they were,
\* and of a bed_time or night_time slot that was present changes nothing but
\* unixTime.
C2_SleepUpdateFrame ==
    last.op = "update_sleep_times" =>
        /\ config.mode = prev.mode
        /\ \A l \in DaylightLabels : config.attrs[l] = prev.attrs[l]
        /\ \A l \in SleepLabels :
               prev.attrs[l] # None =>
                   /\ config.attrs[l] # None
                   /\ config.attrs[l][1] =
                          [prev.attrs[l][1] EXCEPT !.unixTime = config.attrs[l][1].unixTime]

C2_Witness ==
    /\ last.op = "update_sleep_times"
    /\ ~last.raised
    /\ prev.attrs["bed_time"] # None
    /\ prev.attrs["bed_time"][1].warmBrightness = 80
    /\ prev.attrs["sunrise"] # None
    /\ config.attrs["bed_time"][1].unixTime # prev.attrs["bed_time"][1].unixTime

\* The time update_daylight_times stores for a slot: the sunset floored at
\* 19:30, the twilight end derived when the floor applied.
C3_NewTime(l) ==
    LET floored == MinutesOf(last.args[2]) < FloorMinutesOfDay
    IN  CASE l = "sunrise" -> last.args[1]
          [] l = "sunset" -> IF floored THEN hhmm(19, 30) ELSE last.args[2]
          [] l = "civil_twilight_begin" -> last.args[3]
          [] l = "civil_twilight_end" -> IF floored THEN hhmm(20, 0) ELSE last.args[4]

C3_Default(l) ==
    CASE l = "sunrise" -> <<75, 100>>
      [] l = "sunset" -> <<75, 100>>
      [] l = "civil_twilight_begin" -> <<25, 0>>
      [] l = "civil_twilight_end" -> <<100, 0>>
      [] l = "bed_time" -> <<100, 0>>
      [] l = "night_time" -> <<25, 0>>

C3_Created(l, time) ==
    config.attrs[l] =
        Some(ScheduleItem(time, convert_to_unix_timestamp(time, last.offset, last.clock).val,
                          C3_Default(l)[1], C3_Default(l)[2]))

\* C3: a slot that is absent is created by the update that computes it, with
\* the new time, unixTime = convert_to_unix_timestamp(time, offset) and the
\* slot's default brightness: sunrise (75,100), sunset (75,100),
\* civil_twilight_begin (25,0), civil_twilight_end (100,0), bed_time "23:00"
\* (100,0), night_time "23:30" (25,0).
C3_DefaultCreation ==
    /\ (last.op = "update_daylight_times" /\ ~last.raised) =>
           \A l \in DaylightLabels : prev.attrs[l] = None => C3_Created(l, C3_NewTime(l))
    /\ (last.op = "update_sleep_times" /\ prev.attrs["bed_time"] = None) =>
           C3_Created("bed_time", hhmm(23, 0))
    /\ (last.op = "update_sleep_times" /\ ~last.raised /\ prev.attrs["night_time"] = None) =>
           C3_Created("night_time", hhmm(23, 30))

\* update_daylight_times has created all four daylight slots, after
\* update_sleep_times had created bed_time.
C3_Witness ==
    /\ last.op = "update_daylight_times"
    /\ ~last.raised
    /\ \A l \in DaylightLabels : prev.attrs[l] = None /\ config.attrs[l] # None
    /\ loaded.attrs["bed_time"] = None
    /\ config.attrs["bed_time"] # None
    /\ config.attrs["bed_time"][1].time = hhmm(23, 0)

\* C5: after update_daylight_times the stored civil_twilight_end time is the
\* floored sunset plus 30 minutes ("20:00") when the sunset was earlier than
\* 19:30, and the supplied twilight_end, unmodified, when it was not; the stored
\* sunset is then "19:30", respectively the supplied sunset.
C5_TwilightEndSubstitution ==
    (last.op = "update_daylight_times" /\ ~last.raised) =>
        /\ config.attrs["civil_twilight_end"] # None
        /\ config.attrs["sunset"] # None
        /\ IF MinutesOf(last.args[2]) < FloorMinutesOfDay
           THEN /\ config.attrs["civil_twilight_end"][1].time = hhmm(20, 0)
                /\ config.attrs["sunset"][1].time = hhmm(19, 30)
           ELSE /\ config.attrs["civil_twilight_end"][1].time = last.args[4]
                /\ config.attrs["sunset"][1].time = last.args[2]

\* Sunset 18:00 with upstream twilight end 18:30.
C5_Witness ==
    /\ last.op = "update_daylight_times"
    /\ last.args[2] = hhmm(18, 0)
    /\ last.args[4] = hhmm(18, 30)
    /\ config.attrs["sunset"][1].time = hhmm(19, 30)
    /\ config.attrs["civil_twilight_end"][1].time = hhmm(20, 0)

\* C6: build_brightness_schedule returns its entries in non-decreasing unixTime
\* order, whichever slots are present and whatever their unixTime values.
C6_SortedOutput ==
    LET out == build_brightness_schedule(config)
    IN  \A i \in 1..(Len(out) - 1) : out[i].unixTime[1].n <= out[i + 1].unixTime[1].n

\* At least three slots are present and their order of collection is not the
\* order of their unixTime values.
C6_Witness ==
    LET raw == collect_entries(config, 1)
    IN  /\ Len(raw) >= 3
        /\ steps >= 1
        /\ \E i \in 1..(Len(raw) - 1) : raw[i].unixTime[1].n > raw[i + 1].unixTime[1].n

WithoutOtherLabels(data) ==
    IF data.shape = "dict" /\ data.brightnessSchedule # None /\ data.brightnessSchedule[1].isList
    THEN [data EXCEPT !.brightnessSchedule =
             Some(JList(SelectSeq(data.brightnessSchedule[1].items,
                                  LAMBDA e : e.label = None \/ e.label[1] \notin OtherLabels)))]
    ELSE data

HasOtherLabel(data) == WithoutOtherLabels(data) # data

\* C7: a wire entry whose label is not one of the six recognized labels is not
\* stored: the six named slots from_dict builds are those it builds from the
\* payload without that entry, the instance holds nothing under that label, and
\* every label of build_brightness_schedule is one of the six, after any updates.
C7_UnknownLabelDropped ==
    /\ \A l \in STANDARD_LABELS :
           loaded.attrs[l] = from_dict(WithoutOtherLabels(wire)).cfg.attrs[l]
    /\ \A l \in OtherLabels : loaded.attrs[l] = None /\ config.attrs[l] = None
    /\ LET out == build_brightness_schedule(config)
       IN  \A i \in 1..Len(out) : out[i].label # None /\ out[i].label[1] \in STANDARD_LABELS

C7_Witness ==
    /\ HasOtherLabel(wire)
    /\ loaded.attrs["sunrise"] # None
    /\ last.op = "update_daylight_times"
    /\ Len(build_brightness_schedule(config)) >= 4

\* C8: from_dict(to_dict(cfg)) has the named slots of cfg: the same ones are
\* populated, each with the same time, unixTime, warmBrightness and
\* coolBrightness, and the absent ones stay absent.
C8_RoundTrip ==
    last.op = "round_trip" =>
        \A l \in STANDARD_LABELS : config.attrs[l] = prev.attrs[l]

C8_Witness ==
    /\ last.op = "round_trip"
    /\ prev.attrs["sunrise"] # None
    /\ prev.attrs["bed_time"] # None
    /\ prev.attrs["sunset"] = None
    /\ prev.attrs["sunrise"][1].warmBrightness # prev.attrs["sunrise"][1].coolBrightness
    /\ prev.attrs["bed_time"][1].unixTime > 5000

(***************************************************************************)
(* Properties of __enforce_minimum_time                                    *)
(***************************************************************************)
\* C4: for clock times sunset and floor, __enforce_minimum_time returns
\* (floor, true) when the sunset is earlier than the floor in minutes since
\* midnight and (sunset, false) otherwise; applied to its own output it returns
\* the same time with was_adjusted false.
C4_SunsetFloor ==
    LET r == floor_run
        earlier == r.h * 60 + r.m < r.fh * 60 + r.fm
    IN  /\ r.stage >= 1 =>
               /\ r.first[1].time = (IF earlier THEN hhmm(r.fh, r.fm) ELSE hhmm(r.h, r.m))
               /\ r.first[1].adjusted = earlier
        /\ r.stage = 2 =>
               /\ r.second[1].time = r.first[1].time
               /\ r.second[1].adjusted = FALSE

C4_Witness ==
    /\ floor_run.stage = 2
    /\ floor_run.first[1].adjusted
    /\ floor_run.h = 18
    /\ floor_run.fh = 19 /\ floor_run.fm = 30

(***************************************************************************)
(* utils.py: convert_to_hhmm                                               *)
(***************************************************************************)
Upper(c) == IF c = "a" THEN "A" ELSE IF c = "p" THEN "P" ELSE IF c = "m" THEN "M" ELSE c

\* A field of strptime: one or two digits.
strptime_field(s) ==
    IF Len(s) \in 1..2 /\ \A i \in 1..Len(s) : IsDigit(s[i]) THEN Ok(DecVal(s)) ELSE ValueError

HhmmRaised == [ok |-> FALSE, val |-> <<>>]

\* The 24-hour clock time of the parsed fields h, m, s and the AM/PM marker.
hhmm_of_fields(f, ampm) ==
    IF \E i \in 1..3 : ~f[i].ok THEN HhmmRaised
    ELSE IF f[1].val \notin 1..12 \/ f[2].val \notin 0..59 \/ f[3].val \notin 0..61
         THEN HhmmRaised
    ELSE IF ampm \notin {<<"A", "M">>, <<"P", "M">>} THEN HhmmRaised
    ELSE [ok |-> TRUE,
          val |-> hhmm((f[1].val % 12) + (IF ampm = <<"P", "M">> THEN 12 ELSE 0), f[2].val)]

hhmm_of_clock(fields, ampm) ==
    IF Len(fields) # 3 THEN HhmmRaised
    ELSE hhmm_of_fields([i \in 1..3 |-> strptime_field(fields[i])],
                        [i \in 1..Len(ampm) |-> Upper(ampm[i])])

hhmm_of_halves(halves) ==
    IF Len(halves) # 2 THEN HhmmRaised
    ELSE hhmm_of_clock(split(halves[1], ":"), halves[2])

\* datetime.strptime(time_str, "%I:%M:%S %p").strftime("%H:%M")
convert_to_hhmm(time_str) == hhmm_of_halves(split(time_str, " "))

(***************************************************************************)
(* lights_get_lambda/lambda_function.py                                    *)
(*                                                                         *)
(* The stored object is missing, bytes that are no UTF-8, text that is no   *)
(* JSON, or a JSON document; json.dumps followed by json.loads gives back   *)
(* the document, so a stored document is kept as the value json.loads       *)
(* returns for it.                                                         *)
(***************************************************************************)
Blob(kind, doc) == [kind |-> kind, doc |-> doc]

JsonList(n) ==
    [shape |-> "list", len |-> n, mode |-> None, serverTime |-> None,
     brightnessSchedule |-> None, cached_timezone_offset |-> None]

EmptyDict == Dict(None, None, None)

\* An upstream answer of ip-api: the request fails, the body is no JSON, the
\* status is not "success", or a success document with or without its fields.
Geo(kind, offset, lat_lon) == [kind |-> kind, offset |-> offset, lat_lon |-> lat_lon]
NoGeo == Geo("not_called", None, "missing")

\* An upstream answer of sunrise-sunset.org; results holds the four times.
Sun(kind, results) == [kind |-> kind, results |-> results]
NoSun == Sun("not_called", None)

\* "6:45:00 AM" and the like.
ApiTime(h, m, ampm) == dec(h) \o <<":">> \o fmt02d(m) \o <<":", "0", "0", " ">> \o ampm

get_ip_from_event(ev) == ev.sourceIp

\* get_geolocation_data: None on a failed request or a status other than
\* "success"; a body that is no JSON raises.
get_geolocation_data(answer) ==
    CASE answer.kind = "network_error" -> [raised |-> FALSE, data |-> None]
      [] answer.kind = "not_json" -> [raised |-> TRUE, data |-> None]
      [] answer.kind = "fail_status" -> [raised |-> FALSE, data |-> None]
      [] OTHER -> [raised |-> FALSE, data |-> Some(answer)]

offset_of_geolocation(g) ==
    IF g.raised THEN [raised |-> TRUE, val |-> None]
    ELSE IF g.data = None THEN [raised |-> FALSE, val |-> None]
    ELSE IF g.data[1].offset = None THEN [raised |-> TRUE, val |-> None]
    ELSE [raised |-> FALSE, val |-> g.data[1].offset]

\* get_timezone_offset: geolocation_data["offset"] raises KeyError when absent.
get_timezone_offset(ev, answer) ==
    IF get_ip_from_event(ev) = None THEN [raised |-> FALSE, val |-> None]
    ELSE offset_of_geolocation(get_geolocation_data(answer))

\* cached_config.get("cached_timezone_offset"): only a dict has get.
cached_lookup(cached_config) ==
    IF cached_config.shape # "dict" THEN [raised |-> TRUE, val |-> None]
    ELSE [raised |-> FALSE, val |-> cached_config.cached_timezone_offset]

\* Lines 129-136: the cached integer, else 0.
cached_or_utc(c) ==
    IF c.raised THEN [raised |-> TRUE, val |-> 0]
    ELSE IF c.val # None /\ c.val[1].t = "int" THEN [raised |-> FALSE, val |-> c.val[1].n]
    ELSE [raised |-> FALSE, val |-> 0]

cache_then_ip(c, ip_offset) ==
    IF c.raised THEN [raised |-> TRUE, val |-> 0]
    ELSE IF c.val # None /\ c.val[1].t = "int" THEN [raised |-> FALSE, val |-> c.val[1].n]
    ELSE IF ip_offset.raised THEN [raised |-> TRUE, val |-> 0]
    ELSE IF ip_offset.val # None THEN [raised |-> FALSE, val |-> ip_offset.val[1]]
    ELSE [raised |-> FALSE, val |-> 0]

\* Lines 123-126: the offset of the lookup when there is one.
ip_then_cache(ip_offset, cached_config) ==
    IF ip_offset.raised THEN [raised |-> TRUE, val |-> 0]
    ELSE IF ip_offset.val # None THEN [raised |-> FALSE, val |-> ip_offset.val[1]]
    ELSE cached_or_utc(cached_lookup(cached_config))

get_timezone_offset_with_cache_cache_first(ev, cached_config, answer) ==
    cache_then_ip(cached_lookup(cached_config), get_timezone_offset(ev, answer))

\* get_timezone_offset_with_cache: IP geolocation, then the cached integer, then 0.
get_timezone_offset_with_cache(ev, cached_config, answer) ==
    ip_then_cache(get_timezone_offset(ev, answer), cached_config)

\* Lines 196-207: lat, lon and timezone are read first and raise KeyError when
\* absent; a zero or empty one gives None; then the offset is read.
details_of_geolocation(g) ==
    IF g.raised THEN [outcome |-> "raise", offset |-> 0]
    ELSE IF g.data = None THEN [outcome |-> "none", offset |-> 0]
    ELSE IF g.data[1].lat_lon = "missing" THEN [outcome |-> "raise", offset |-> 0]
    ELSE IF g.data[1].lat_lon = "zero" THEN [outcome |-> "none", offset |-> 0]
    ELSE IF g.data[1].offset = None THEN [outcome |-> "raise", offset |-> 0]
    ELSE [outcome |-> "go", offset |-> g.data[1].offset[1]]

\* get_daylight_times, steps 1 to 3 and the offset: outcome "none" (returns
\* None), "raise", or "go" with the offset of this lookup.
daylight_geolocation(ev, answer) ==
    IF get_ip_from_event(ev) = None THEN [outcome |-> "none", offset |-> 0]
    ELSE details_of_geolocation(get_geolocation_data(answer))

\* get_sunrise_sunset_data
get_sunrise_sunset_data(answer) ==
    CASE answer.kind = "network_error" -> [raised |-> FALSE, data |-> None]
      [] answer.kind = "not_json" -> [raised |-> TRUE, data |-> None]
      [] answer.kind = "bad_status" -> [raised |-> FALSE, data |-> None]
      [] OTHER -> [raised |-> FALSE, data |-> Some(answer)]

\* Lines 222-228: the four converted times and the offset.
daylight_tuple(t, offset) ==
    IF \E i \in 1..4 : ~t[i].ok THEN [outcome |-> "raise", val |-> None]
    ELSE [outcome |-> "go",
          val |-> Some([times |-> [i \in 1..4 |-> t[i].val], tz_offset |-> offset])]

\* Lines 210-220: sunrise_sunset_data["results"] raises KeyError when absent.
daylight_of_data(d, offset) ==
    IF d.raised THEN [outcome |-> "raise", val |-> None]
    ELSE IF d.data = None THEN [outcome |-> "none", val |-> None]
    ELSE IF d.data[1].results = None THEN [outcome |-> "raise", val |-> None]
    ELSE daylight_tuple([i \in 1..4 |-> convert_to_hhmm(d.data[1].results[1][i])], offset)

\* get_daylight_times, steps 4 and 5: the four times as HH:mm and the offset.
daylight_times(answer, offset) == daylight_of_data(get_sunrise_sunset_data(answer), offset)

(***************************************************************************)
(* SpecGet: one GET request against the stored object                      *)
(***************************************************************************)
AM == <<"A", "M">>
PM == <<"P", "M">>

Events ==
    { [method |-> "GET", sourceIp |-> Some("203.0.113.7")],
      [method |-> "GET", sourceIp |-> None],
      [method |-> "POST", sourceIp |-> Some("203.0.113.7")] }

StoredSunrise ==
    Entry(Some("sunrise"), Some(JStr(hhmm(7, 0))), Some(JInt(0)), Some(JInt(50)), Some(JInt(80)))

StoredBedTime ==
    Entry(Some("bed_time"), Some(JStr(hhmm(22, 15))), Some(JInt(1000)),
          Some(JInt(80)), Some(JInt(10)))

\* night_time stored without a time; sunrise stored with a unixTime that is no number.
StoredNightNoTime == Entry(Some("night_time"), None, None, Some(JInt(15)), Some(JInt(0)))

StoredSunriseBadUnix ==
    Entry(Some("sunrise"), Some(JStr(hhmm(7, 0))), Some(JStr(<<"a", "b", "c">>)),
          Some(JInt(50)), Some(JInt(80)))

DayNight == Some(StrMode("dayNight"))

Blobs ==
    { Blob("missing", EmptyDict), Blob("not_utf8", EmptyDict), Blob("garbage", EmptyDict),
      Blob("json", NoneData), Blob("json", JsonList(0)), Blob("json", JsonList(1)),
      Blob("json", EmptyDict),
      Blob("json", Dict(DayNight, Some(JList(<<StoredSunrise>>)), None)),
      Blob("json", Dict(DayNight, Some(JList(<<StoredSunrise, StoredBedTime>>)),
                        Some(JInt(18000)))),
      Blob("json", Dict(DayNight, Some(JList(<<StoredBedTime>>)), Some(JInt(-14400)))),
      Blob("json", Dict(DayNight, Some(JList(<<StoredNightNoTime>>)), None)),
      Blob("json", Dict(DayNight, Some(JList(<<StoredSunriseBadUnix>>)), None)),
      Blob("json", Dict(None, None, Some(JStr(<<"x">>)))) }

GeoAnswers ==
    { Geo("network_error", None, "missing"), Geo("not_json", None, "missing"),
      Geo("fail_status", None, "missing"),
      Geo("success", Some(-14400), "present"), Geo("success", Some(0), "present"),
      Geo("success", None, "present"), Geo("success", Some(-14400), "missing"),
      Geo("success", Some(-14400), "zero") }

SunAnswers ==
    { Sun("network_error", None), Sun("not_json", None), Sun("bad_status", None),
      Sun("OK", None),
      Sun("OK", Some(<<ApiTime(6, 45, AM), ApiTime(7, 0, PM),
                       ApiTime(6, 15, AM), ApiTime(7, 30, PM)>>)),
      Sun("OK", Some(<<ApiTime(6, 45, AM), ApiTime(8, 15, PM),
                       ApiTime(6, 15, AM), ApiTime(8, 45, PM)>>)),
      Sun("OK", Some(<<ApiTime(6, 45, AM), hhmm(19, 0),
                       ApiTime(6, 15, AM), ApiTime(7, 30, PM)>>)) }

Response(statusCode, body) == Some([statusCode |-> statusCode, body |-> body])

\* The outer except: any exception becomes a 500 response.
InternalError(g) == [g EXCEPT !.pc = "done", !.response = Response(500, None)]

\* The handler at its first line.
NewGet ==
    [pc |-> "start", data |-> EmptyDict, s3_failed |-> FALSE,
     config_data |-> create_empty, timezone_offset |-> 0, tz_done |-> FALSE,
     geo1 |-> NoGeo, geo2 |-> NoGeo, sun |-> NoSun, daylight |-> None,
     cache_config |-> EmptyDict, response |-> None, puts |-> 0]

InitGet ==
    /\ now = Clock0
    /\ CfgIdle
    /\ FloorIdle
    /\ s3_object \in Blobs
    /\ event \in Events
    /\ get = NewGet
    /\ post = NoPost
    /\ hist = History(s3_object)

\* Lines 49-54: only GET is served.
G_CheckMethod ==
    /\ get.pc = "start"
    /\ get' = IF event.method # "GET"
              THEN [get EXCEPT !.pc = "done", !.response = Response(405, None)]
              ELSE [get EXCEPT !.pc = "s3_get"]
    /\ UNCHANGED <<now, cfgVars, floorVars, postVars, s3_object, event>>

\* Line 66, from_dict, which may raise.
config_loaded(g, data, r) ==
    IF ~r.ok THEN InternalError([g EXCEPT !.data = data])
    ELSE [g EXCEPT !.pc = "tz", !.data = data, !.config_data = r.cfg]

config_read(g, data) == config_loaded(g, data, from_dict(data))

\* Lines 56-66: get_object, decode, json.loads, from_dict. NoSuchKey and
\* JSONDecodeError leave data = {}; any other exception leaves the handler.
G_ReadConfig(unreachable) ==
    /\ get.pc = "s3_get"
    /\ get' =
         IF unreachable THEN [InternalError(get) EXCEPT !.s3_failed = TRUE]
         ELSE IF s3_object.kind = "not_utf8" THEN InternalError(get)
         ELSE config_read(get, IF s3_object.kind = "json" THEN s3_object.doc ELSE EmptyDict)
    /\ UNCHANGED <<now, cfgVars, floorVars, postVars, s3_object, event>>

\* Line 72, update_sleep_times, which may raise.
sleep_times_updated(g, u) ==
    IF u.raised THEN InternalError([g EXCEPT !.config_data = u.cfg])
    ELSE [g EXCEPT !.config_data = u.cfg, !.pc = "daylight_geo"]

\* Line 69 has returned tz or raised.
offset_resolved(g, tz, clock) ==
    IF tz.raised THEN InternalError(g)
    ELSE sleep_times_updated([g EXCEPT !.timezone_offset = tz.val, !.tz_done = TRUE],
                             update_sleep_times(g.config_data, tz.val, clock))

\* An answer of ip-api with status "success" and an offset is on record as a
\* successful lookup.
looked_up(h, answer) ==
    IF answer.kind = "success" /\ answer.offset # None
    THEN [h EXCEPT !.lookups = h.lookups \cup {answer.offset[1]}]
    ELSE h

\* Lines 68-72: get_timezone_offset_with_cache, then update_sleep_times.
G_TimezoneOffset(answer) ==
    /\ get.pc = "tz"
    /\ answer = NoGeo <=> get_ip_from_event(event) = None
    /\ get' = offset_resolved([get EXCEPT !.geo1 = answer],
                               get_timezone_offset_with_cache(event, get.data, answer), now)
    /\ hist' = looked_up(hist, answer)
    /\ UNCHANGED <<now, cfgVars, floorVars, post, s3_object, event>>

geolocated(g, r) ==
    CASE r.outcome = "raise" -> InternalError(g)
      [] r.outcome = "none" -> [g EXCEPT !.pc = "respond"]
      [] OTHER -> [g EXCEPT !.pc = "daylight_sun"]

\* Lines 188-207: the second geolocation lookup, made by get_daylight_times.
G_DaylightGeo(answer) ==
    /\ get.pc = "daylight_geo"
    /\ answer = NoGeo <=> get_ip_from_event(event) = None
    /\ get' = geolocated([get EXCEPT !.geo2 = answer], daylight_geolocation(event, answer))
    /\ hist' = looked_up(hist, answer)
    /\ UNCHANGED <<now, cfgVars, floorVars, post, s3_object, event>>

daylight_updated_always_cache(g, u, c, tz_offset) ==
    IF u.raised \/ c.raised THEN InternalError([g EXCEPT !.config_data = u.cfg])
    ELSE [g EXCEPT !.config_data = u.cfg, !.pc = "cache_get"]

\* Lines 78-82: update_daylight_times has run; the offset is cached when the
\* stored document does not hold it already.
daylight_updated(g, u, c, tz_offset) ==
    IF u.raised \/ c.raised THEN InternalError([g EXCEPT !.config_data = u.cfg])
    ELSE IF c.val # Some(JInt(tz_offset)) THEN [g EXCEPT !.config_data = u.cfg, !.pc = "cache_get"]
    ELSE [g EXCEPT !.config_data = u.cfg, !.pc = "respond"]

daylight_resolved_fallback_times(g, r, clock) ==
    CASE r.outcome = "raise" -> InternalError(g)
      [] r.outcome = "none" ->
           [g EXCEPT !.pc = "respond",
                     !.config_data = update_daylight_times(g.config_data, hhmm(6, 0), hhmm(19, 30),
                                         hhmm(5, 30), hhmm(20, 0), g.timezone_offset, clock).cfg]
      [] OTHER ->
           daylight_updated(
               [g EXCEPT !.daylight = r.val],
               update_daylight_times(g.config_data, r.val[1].times[1], r.val[1].times[2],
                                     r.val[1].times[3], r.val[1].times[4],
                                     g.timezone_offset, clock),
               cached_lookup(g.data), r.val[1].tz_offset)

daylight_resolved_second_offset(g, r, clock) ==
    CASE r.outcome = "raise" -> InternalError(g)
      [] r.outcome = "none" -> [g EXCEPT !.pc = "respond"]
      [] OTHER ->
           daylight_updated(
               [g EXCEPT !.daylight = r.val],
               update_daylight_times(g.config_data, r.val[1].times[1], r.val[1].times[2],
                                     r.val[1].times[3], r.val[1].times[4],
                                     r.val[1].tz_offset, clock),
               cached_lookup(g.data), r.val[1].tz_offset)

\* Lines 75-79: get_daylight_times has returned r, None or raised; the times
\* are stored under the offset line 69 resolved.
daylight_resolved(g, r, clock) ==
    CASE r.outcome = "raise" -> InternalError(g)
      [] r.outcome = "none" -> [g EXCEPT !.pc = "respond"]
      [] OTHER ->
           daylight_updated(
               [g EXCEPT !.daylight = r.val],
               update_daylight_times(g.config_data, r.val[1].times[1], r.val[1].times[2],
                                     r.val[1].times[3], r.val[1].times[4],
                                     g.timezone_offset, clock),
               cached_lookup(g.data), r.val[1].tz_offset)

\* Lines 209-228 and 76-82: the daylight lookup, update_daylight_times with the
\* offset of the first lookup, and the test whether the offset is to be cached.
G_DaylightSun(answer) ==
    /\ get.pc = "daylight_sun"
    /\ get' = daylight_resolved(
                  [get EXCEPT !.sun = answer],
                  daylight_times(answer, daylight_geolocation(event, get.geo2).offset), now)
    /\ UNCHANGED <<now, cfgVars, floorVars, postVars, s3_object, event>>

\* Line 157: config["cached_timezone_offset"] = offset.
cache_read(g, cfg) ==
    IF cfg.shape # "dict" THEN [g EXCEPT !.pc = "respond", !.cache_config = cfg]
    ELSE [g EXCEPT !.pc = "cache_put",
                   !.cache_config = [cfg EXCEPT !.cached_timezone_offset =
                                                    Some(JInt(g.daylight[1].tz_offset))]]

\* cache_timezone_offset, lines 146-157: any failure to read gives {}; setting
\* the key on a document that is no dict raises, which the function swallows.
G_CacheGet(unreachable) ==
    /\ get.pc = "cache_get"
    /\ get' = cache_read(get, IF unreachable \/ s3_object.kind # "json" THEN EmptyDict
                                ELSE s3_object.doc)
    /\ hist' = [hist EXCEPT !.get_read = Len(hist.writes)]
    /\ UNCHANGED <<now, cfgVars, floorVars, post, s3_object, event>>

\* put_object has stored doc; read_at puts had been made when its writer read.
put_recorded(h, by, read_at, doc) ==
    [h EXCEPT !.writes = Append(h.writes, [by |-> by, read_at |-> read_at, doc |-> doc])]

G_CachePut_serialized(fails) ==
    /\ get.pc = "cache_put"
    /\ IF fails
       THEN /\ get' = [get EXCEPT !.pc = "respond"]
            /\ UNCHANGED <<s3_object, hist>>
       ELSE /\ get' = [get EXCEPT !.pc = "respond", !.puts = get.puts + 1]
            /\ s3_object' = Blob("json", [s3_object.doc EXCEPT !.cached_timezone_offset =
                                              get.cache_config.cached_timezone_offset])
            /\ hist' = put_recorded(hist, "GET", hist.get_read,
                                    [s3_object.doc EXCEPT !.cached_timezone_offset =
                                         get.cache_config.cached_timezone_offset])
    /\ UNCHANGED <<now, cfgVars, floorVars, post, event>>

\* cache_timezone_offset, lines 159-168: put_object; a failure is swallowed.
G_CachePut(fails) ==
    /\ get.pc = "cache_put"
    /\ IF fails
       THEN /\ get' = [get EXCEPT !.pc = "respond"]
            /\ UNCHANGED <<s3_object, hist>>
       ELSE /\ get' = [get EXCEPT !.pc = "respond", !.puts = get.puts + 1]
            /\ s3_object' = Blob("json", get.cache_config)
            /\ hist' = put_recorded(hist, "GET", hist.get_read, get.cache_config)
    /\ UNCHANGED <<now, cfgVars, floorVars, post, event>>

\* Lines 84-89.
G_Respond ==
    /\ get.pc = "respond"
    /\ get' = [get EXCEPT !.pc = "done",
                          !.response = Response(200, Some(to_dict(get.config_data, now)))]
    /\ UNCHANGED <<now, cfgVars, floorVars, postVars, s3_object, event>>

NextGet ==
    \/ G_CheckMethod
    \/ \E unreachable \in BOOLEAN : G_ReadConfig(unreachable)
    \/ \E answer \in GeoAnswers \cup {NoGeo} : G_TimezoneOffset(answer)
    \/ \E answer \in GeoAnswers \cup {NoGeo} : G_DaylightGeo(answer)
    \/ \E answer \in SunAnswers : G_DaylightSun(answer)
    \/ \E unreachable \in BOOLEAN : G_CacheGet(unreachable)
    \/ \E fails \in BOOLEAN : G_CachePut(fails)
    \/ G_Respond

SpecGet == InitGet /\ [][NextGet]_vars

(***************************************************************************)
(* Properties of the GET handler                                           *)
(***************************************************************************)
\* C9: get_timezone_offset_with_cache returns the offset of the geolocation
\* lookup whenever a source IP is present and the lookup succeeds (the cached
\* value is then not the one returned); otherwise the integer cached offset of
\* the stored document when there is one; otherwise 0.
C9_OffsetFallbackChain ==
    get.tz_done =>
        LET cached == get.data.cached_timezone_offset
        IN  IF event.sourceIp # None /\ get.geo1.kind = "success"
            THEN get.geo1.offset = Some(get.timezone_offset)
            ELSE get.timezone_offset =
                     IF cached # None /\ cached[1].t = "int" THEN cached[1].n ELSE 0

\* The lookup failed and the stored document holds cachedOffset = 18000.
C9_Witness ==
    /\ get.tz_done
    /\ event.sourceIp # None
    /\ get.geo1.kind = "network_error"
    /\ get.data.cached_timezone_offset = Some(JInt(18000))
    /\ get.timezone_offset = 18000

\* C10: a GET request whose get_object did not fail is answered 200, whatever
\* the upstream answers and whatever the stored object holds.
C10_ReadAvailability ==
    (get.pc = "done" /\ event.method = "GET" /\ ~get.s3_failed) =>
        get.response[1].statusCode = 200

GetAnswered200 == get.pc = "done" /\ get.response[1].statusCode = 200

\* The brightnessSchedule of the response.
ResponseEntries == get.response[1].body[1].brightnessSchedule[1].items

\* C14: a GET request makes at most one put, and makes it only when its
\* daylight lookup succeeded and the cached offset of the document it read is
\* absent or differs from the offset looked up; when the two are equal, or the
\* lookup failed, it makes none.
C14_PutOnlyOnCacheFill ==
    /\ get.puts <= 1
    /\ Len(hist.writes) = get.puts
    /\ get.puts = 1 =>
           /\ get.daylight # None
           /\ get.data.shape = "dict"
           /\ get.data.cached_timezone_offset # Some(JInt(get.daylight[1].tz_offset))
    /\ (/\ get.pc = "done"
        /\ \/ get.daylight = None
           \/ get.data.cached_timezone_offset = Some(JInt(get.daylight[1].tz_offset))) =>
           get.puts = 0

\* The document read holds 18000 and the lookup gave -14400: one put.
C14_Witness ==
    /\ get.pc = "done"
    /\ get.puts = 1
    /\ get.data.cached_timezone_offset = Some(JInt(18000))
    /\ get.daylight[1].tz_offset = -14400
    /\ s3_object.doc.cached_timezone_offset = Some(JInt(-14400))

\* unixTime of a response entry is its time under the offset resolved in the
\* request, on the local date of the request.
InstantConsistent(e) ==
    /\ convert_to_unix_timestamp(e.time[1].s, get.timezone_offset, now).ok
    /\ e.unixTime[1].n = convert_to_unix_timestamp(e.time[1].s, get.timezone_offset, now).val

\* C16 as stated: in every 200 response every entry has
\* unixTime = convert_to_unix_timestamp(time, offset) for the offset resolved
\* in the request, whether or not the daylight lookup succeeded.
C16_InstantConsistency ==
    GetAnswered200 => \A i \in 1..Len(ResponseEntries) : InstantConsistent(ResponseEntries[i])

\* C16, amended: in every 200 response the bed_time and night_time entries have
\* unixTime = convert_to_unix_timestamp(time, offset) for the offset resolved
\* in the request, and so have the four daylight entries when the daylight
\* lookup of the request succeeded.
C16_InstantConsistencyWhenUpdated ==
    GetAnswered200 =>
        \A i \in 1..Len(ResponseEntries) :
            (ResponseEntries[i].label[1] \in SleepLabels \/ get.daylight # None) =>
                InstantConsistent(ResponseEntries[i])

\* A stored sunrise with unixTime 0 was updated under the offset of the first
\* lookup while the second lookup gave another offset.
C16_Witness ==
    /\ GetAnswered200
    /\ get.daylight # None
    /\ get.daylight[1].tz_offset # get.timezone_offset
    /\ from_dict(get.data).cfg.attrs["sunrise"] = Some(ScheduleItem(hhmm(7, 0), 0, 50, 80))
    /\ Len(ResponseEntries) = 6

\* The entries of the response that carry label l.
EntriesOf(l) == SelectSeq(ResponseEntries, LAMBDA e : e.label = Some(l))

\* The entry a sleep slot has in the response: the stored time and brightness,
\* or the defaults, with unixTime under the resolved offset.
SleepEntry(l, stored) ==
    LET time == IF stored = None THEN (IF l = "bed_time" THEN hhmm(23, 0) ELSE hhmm(23, 30))
                ELSE stored[1].time
        bright == IF stored # None
                  THEN <<stored[1].warmBrightness, stored[1].coolBrightness>>
                  ELSE IF l = "bed_time" THEN <<100, 0>> ELSE <<25, 0>>
    IN  BrightnessScheduleEntry(
            ScheduleItem(time, convert_to_unix_timestamp(time, get.timezone_offset, now).val,
                         bright[1], bright[2]), l)

\* C17: in a 200 response of a request whose geolocation or daylight lookup
\* gave nothing, or that had no source IP, the four daylight entries are the
\* ones loaded from the stored document (same time, unixTime and brightness,
\* absent ones absent), and bed_time and night_time are created or refreshed
\* under the resolved offset.
C17_NoDaylightUpdateOnFailure ==
    (GetAnswered200 /\ get.daylight = None) =>
        /\ \A l \in DaylightLabels :
               EntriesOf(l) = IF from_dict(get.data).cfg.attrs[l] = None THEN <<>>
                              ELSE <<BrightnessScheduleEntry(from_dict(get.data).cfg.attrs[l][1], l)>>
        /\ \A l \in SleepLabels :
               EntriesOf(l) = <<SleepEntry(l, from_dict(get.data).cfg.attrs[l])>>

\* The geolocation lookup succeeded and the daylight lookup failed, with a
\* sunrise and a bed_time stored and an offset of 18000 cached.
C17_Witness ==
    /\ GetAnswered200
    /\ get.daylight = None
    /\ get.geo2.kind = "success"
    /\ get.sun.kind = "network_error"
    /\ get.data.cached_timezone_offset = Some(JInt(18000))
    /\ Len(EntriesOf("sunrise")) = 1
    /\ Len(EntriesOf("sunset")) = 0

\* C19: from_dict on a non-empty payload takes the payload's mode when it is a
\* recognized mode string and dayNight when it is absent or not a recognized
\* string, so that the mode of a config built by from_dict is a recognized one.
C19_ModeFallback ==
    /\ loaded.mode \in {"dayNight", "scheduled", "demo"}
    /\ (wire.shape = "dict" /\ ~Falsy(wire)) =>
           loaded.mode =
               IF /\ wire.mode # None /\ wire.mode[1].isStr
                  /\ wire.mode[1].s \in {"dayNight", "scheduled", "demo"}
               THEN wire.mode[1].s
               ELSE "dayNight"

(***************************************************************************)
(* lights_post_lambda/lambda_function.py: validation                       *)
(***************************************************************************)
SECRET_TOKEN == "default-secret-token"
VALID_MODES == {"dayNight", "scheduled", "demo"}
REQUIRED_ENTRY_FIELDS == {"time", "warmBrightness", "coolBrightness", "label"}

\* 0 <= h <= 23 and 0 <= m <= 59, int() having raised on neither.
hours_minutes_valid(h, m) == h.ok /\ m.ok /\ h.val \in 0..23 /\ m.val \in 0..59

\* hours, minutes = time_str.split(':'), then int() of each; a ValueError of
\* the unpacking or of int() gives False.
time_parts_valid(parts) ==
    IF Len(parts) # 2 THEN FALSE
    ELSE hours_minutes_valid(py_int_str(parts[1]), py_int_str(parts[2]))

\* validate_time_format
validate_time_format(time_str) ==
    IF Len(time_str) # 5 \/ time_str[3] # ":" THEN FALSE
    ELSE time_parts_valid(split(time_str, ":"))

entry_field(entry, f) ==
    CASE f = "time" -> entry.time
      [] f = "warmBrightness" -> entry.warmBrightness
      [] f = "coolBrightness" -> entry.coolBrightness
      [] f = "label" -> entry.label

\* REQUIRED_ENTRY_FIELDS - set(entry.keys())
missing_fields(entry) == {f \in REQUIRED_ENTRY_FIELDS : entry_field(entry, f) = None}

\* isinstance(val, int) and 0 <= val <= 100
brightness_valid(val) == val.t = "int" /\ val.n >= 0 /\ val.n <= 100

\* The checks of one entry in the order of the loop body: "" when all pass,
\* else the name of the check that failed.
entry_error(entry) ==
    IF missing_fields(entry) # {} THEN "missing required fields"
    ELSE IF entry.time[1].t # "str" \/ ~validate_time_format(entry.time[1].s) THEN "time"
    ELSE IF ~brightness_valid(entry.warmBrightness[1]) THEN "warmBrightness"
    ELSE IF ~brightness_valid(entry.coolBrightness[1]) THEN "coolBrightness"
    ELSE IF entry.label[1] = "" THEN "label"
    ELSE ""

\* An error message: what is wrong and, for an entry, its index i (from 0).
ValidationError(what, index) == Some([what |-> what, index |-> index])

Validated(error) == [raised |-> FALSE, error |-> error]

\* for i, entry in enumerate(schedule): the first entry that fails a check.
RECURSIVE validate_entries(_, _), validate_entry(_, _, _)
validate_entries(schedule, i) ==
    IF i > Len(schedule) THEN Validated(None)
    ELSE validate_entry(schedule, i, entry_error(schedule[i]))

validate_entry(schedule, i, what) ==
    IF what # "" THEN Validated(ValidationError(what, i - 1))
    ELSE validate_entries(schedule, i + 1)

\* validate_unified_format: None when valid, else the message; body.get raises
\* when the body is no JSON object.
validate_unified_format(body) ==
    IF body.shape # "dict" THEN [raised |-> TRUE, error |-> None]
    ELSE IF body.mode = None THEN Validated(ValidationError("Missing required field: mode", -1))
    ELSE IF ~body.mode[1].isStr \/ body.mode[1].s \notin VALID_MODES
         THEN Validated(ValidationError("Invalid mode", -1))
    ELSE IF body.brightnessSchedule = None
         THEN Validated(ValidationError("Missing required field: brightnessSchedule", -1))
    ELSE IF ~body.brightnessSchedule[1].isList
         THEN Validated(ValidationError("brightnessSchedule must be an array", -1))
    ELSE validate_entries(body.brightnessSchedule[1].items, 1)

(***************************************************************************)
(* lights_post_lambda/lambda_function.py: lambda_handler                   *)
(***************************************************************************)
PostResponse(statusCode) == Some([statusCode |-> statusCode])

PostFailed(p) == [p EXCEPT !.pc = "done", !.response = PostResponse(500)]

\* Lines 53-68: the method, then the pre-shared token.
request_checked(p) ==
    IF p.method # "POST" THEN [p EXCEPT !.pc = "done", !.response = PostResponse(405)]
    ELSE IF p.token # SECRET_TOKEN THEN [p EXCEPT !.pc = "done", !.response = PostResponse(403)]
    ELSE [p EXCEPT !.pc = "parse"]

\* Lines 74-80: v is what validate_unified_format returned, or that it raised.
body_validated(p, v) ==
    IF v.raised THEN PostFailed(p)
    ELSE IF v.error # None
    THEN [p EXCEPT !.validated = TRUE, !.error = v.error, !.pc = "done",
                   !.response = PostResponse(400)]
    ELSE [p EXCEPT !.validated = TRUE, !.pc = "read"]

\* Line 71: json.loads raises on a body that is no JSON.
body_parsed(p) ==
    IF p.raw.kind # "json" THEN PostFailed(p)
    ELSE body_validated([p EXCEPT !.body = p.raw.doc], validate_unified_format(p.raw.doc))

\* Lines 84-85: the stored document, None when any of get_object, decode and
\* json.loads raises.
existing_config(store, unreachable) ==
    IF unreachable \/ store.kind # "json" THEN None ELSE Some(store.doc)

existing_merged_payload_first(body, existing) ==
    IF existing # None /\ existing[1].shape = "dict"
       /\ existing[1].cached_timezone_offset # None /\ body.cached_timezone_offset = None
    THEN [body EXCEPT !.cached_timezone_offset = existing[1].cached_timezone_offset]
    ELSE body

\* Lines 86-89: the cached offset of the existing document goes into the body;
\* `in` on null raises, which is swallowed, and a list holds no such element.
existing_merged(body, existing) ==
    IF existing # None /\ existing[1].shape = "dict"
       /\ existing[1].cached_timezone_offset # None
    THEN [body EXCEPT !.cached_timezone_offset = existing[1].cached_timezone_offset]
    ELSE body

existing_read(p, existing) ==
    [p EXCEPT !.pc = "put", !.existing = existing, !.body = existing_merged(p.body, existing)]

put_outcome_raise_after_put(p, fails) ==
    IF fails THEN PostFailed(p)
    ELSE PostFailed([p EXCEPT !.puts = p.puts + 1])

\* Lines 92-108: put_object raises, or the payload is stored and 200 returned.
put_outcome(p, fails) ==
    IF fails THEN PostFailed(p)
    ELSE [p EXCEPT !.pc = "done", !.puts = p.puts + 1, !.response = PostResponse(200)]

P_CheckRequest ==
    /\ post.pc = "start"
    /\ post' = request_checked(post)
    /\ UNCHANGED <<now, cfgVars, floorVars, getVars, hist>>

P_ParseAndValidate ==
    /\ post.pc = "parse"
    /\ post' = body_parsed(post)
    /\ UNCHANGED <<now, cfgVars, floorVars, getVars, hist>>

P_ReadExisting(unreachable) ==
    /\ post.pc = "read"
    /\ post' = existing_read(post, existing_config(s3_object, unreachable))
    /\ hist' = [hist EXCEPT !.post_read = Len(hist.writes)]
    /\ UNCHANGED <<now, cfgVars, floorVars, getVars>>

P_Put(fails) ==
    /\ post.pc = "put"
    /\ post' = put_outcome(post, fails)
    /\ IF fails
       THEN UNCHANGED <<s3_object, hist>>
       ELSE /\ s3_object' = Blob("json", post.body)
            /\ hist' = put_recorded(hist, "POST", hist.post_read, post.body)
    /\ UNCHANGED <<now, cfgVars, floorVars, event, get>>

(***************************************************************************)
(* SpecPost: one POST request against the stored object                    *)
(***************************************************************************)
PostEntry(label, time, warm, cool) == Entry(label, time, None, warm, cool)

GoodEntry == PostEntry(Some("sunrise"), Some(JStr(hhmm(7, 0))), Some(JInt(50)), Some(JInt(80)))
EarlySunset == PostEntry(Some("sunset"), Some(JStr(hhmm(18, 0))), Some(JInt(60)), Some(JInt(90)))
WithTime(time) == [GoodEntry EXCEPT !.time = time]
SignedTime == WithTime(Some(JStr(<<"+", "7", ":", "3", "0">>)))
Hour24 == WithTime(Some(JStr(hhmm(24, 0))))
Minute60 == WithTime(Some(JStr(hhmm(12, 60))))
ShortTime == WithTime(Some(JStr(<<"7", ":", "3", "0">>)))
NumberTime == WithTime(Some(JInt(700)))
TooBright == [GoodEntry EXCEPT !.warmBrightness = Some(JInt(101))]
NegativeCool == [GoodEntry EXCEPT !.coolBrightness = Some(JInt(-1))]
TextBrightness == [GoodEntry EXCEPT !.coolBrightness = Some(JStr(<<"5", "0">>))]
NoLabel == [GoodEntry EXCEPT !.label = None]
EmptyLabel == [GoodEntry EXCEPT !.label = Some("")]

Payload(mode, entries) == Dict(Some(StrMode(mode)), Some(JList(entries)), None)

\* The payload carries a cached_timezone_offset of its own.
PayloadWithOffset == Dict(Some(StrMode("dayNight")), Some(JList(<<GoodEntry>>)), Some(JInt(12345)))

Payloads ==
    { Payload("dayNight", <<>>), Payload("scheduled", <<GoodEntry, EarlySunset>>),
      Payload("demo", <<EarlySunset>>), PayloadWithOffset,
      NoneData, JsonList(0), EmptyDict,
      Payload("bogus", <<>>), Dict(Some(NotAString), Some(JList(<<>>)), None),
      Dict(Some(StrMode("dayNight")), None, None),
      Dict(Some(StrMode("dayNight")), Some(NotAList), None),
      Payload("dayNight", <<SignedTime>>), Payload("dayNight", <<Hour24>>),
      Payload("dayNight", <<GoodEntry, Minute60>>), Payload("dayNight", <<ShortTime>>),
      Payload("dayNight", <<NumberTime>>), Payload("dayNight", <<GoodEntry, TooBright>>),
      Payload("dayNight", <<TooBright, Hour24>>),
      Payload("dayNight", <<GoodEntry, EarlySunset, NegativeCool>>),
      Payload("dayNight", <<TextBrightness>>), Payload("dayNight", <<NoLabel, Hour24>>),
      Payload("dayNight", <<EmptyLabel>>) }

PostRequest(method, token, raw) ==
    [NoPost EXCEPT !.pc = "start", !.method = method, !.token = token, !.raw = raw]

PostRequests ==
    {PostRequest("POST", SECRET_TOKEN, Blob("json", p)) : p \in Payloads}
    \cup { PostRequest("POST", SECRET_TOKEN, Blob("garbage", EmptyDict)),
           PostRequest("GET", SECRET_TOKEN, Blob("json", Payload("dayNight", <<>>))),
           PostRequest("POST", "guess", Blob("json", Payload("dayNight", <<>>))),
           PostRequest("POST", "", Blob("json", Payload("dayNight", <<>>))) }

InitPost ==
    /\ now = Clock0
    /\ CfgIdle
    /\ FloorIdle
    /\ event = <<>>
    /\ get = <<>>
    /\ s3_object \in Blobs
    /\ post \in PostRequests
    /\ hist = History(s3_object)

NextPost ==
    \/ P_CheckRequest
    \/ P_ParseAndValidate
    \/ \E unreachable \in BOOLEAN : P_ReadExisting(unreachable)
    \/ \E fails \in BOOLEAN : P_Put(fails)

SpecPost == InitPost /\ [][NextPost]_vars

(***************************************************************************)
(* Properties of the POST handler                                          *)
(***************************************************************************)
\* C11: a POST request answered with anything other than 200 has made no put,
\* and the stored object is the one from before the request.
C11_RejectedWriteLeavesStore ==
    (post.pc = "done" /\ post.response[1].statusCode # 200) =>
        /\ post.puts = 0
        /\ hist.writes = <<>>
        /\ s3_object = hist.store0

\* A payload whose second entry is too bright was rejected with 400 while a
\* document was stored.
C11_Witness ==
    /\ post.pc = "done"
    /\ post.response = PostResponse(400)
    /\ post.error = ValidationError("warmBrightness", 1)
    /\ s3_object.kind = "json"
    /\ s3_object.doc.cached_timezone_offset = Some(JInt(18000))

\* "HH:MM": two digits, a colon, two digits, hour 0-23 and minute 0-59.
StrictHHMM(t) ==
    /\ Len(t) = 5
    /\ t[3] = ":"
    /\ \A i \in {1, 2, 4, 5} : IsDigit(t[i])
    /\ DecVal(SubSeq(t, 1, 2)) <= 23
    /\ DecVal(SubSeq(t, 4, 5)) <= 59

IntegerInRange(v) == v # None /\ v[1].t = "int" /\ v[1].n \in 0..100

ValidEntry(e) ==
    /\ e.time # None /\ e.time[1].t = "str" /\ StrictHHMM(e.time[1].s)
    /\ IntegerInRange(e.warmBrightness)
    /\ IntegerInRange(e.coolBrightness)
    /\ e.label # None /\ e.label[1] # ""

ValidPayload(doc) ==
    /\ doc.shape = "dict"
    /\ doc.mode # None /\ doc.mode[1].isStr
    /\ doc.mode[1].s \in {"dayNight", "scheduled", "demo"}
    /\ doc.brightnessSchedule # None /\ doc.brightnessSchedule[1].isList
    /\ \A i \in 1..Len(doc.brightnessSchedule[1].items) :
           ValidEntry(doc.brightnessSchedule[1].items[i])

\* C12: validate_unified_format accepts a payload if and only if its mode is
\* dayNight, scheduled or demo, its brightnessSchedule is a list and every entry
\* has a valid HH:MM time, integer brightness values in [0,100] and a non-empty
\* label; an error about an entry names the lowest index of an invalid entry.
C12_WriteValidation ==
    post.validated =>
        /\ post.error = None <=> ValidPayload(post.raw.doc)
        /\ (post.error # None /\ post.error[1].index >= 0) =>
               LET items == post.raw.doc.brightnessSchedule[1].items
               IN  /\ ~ValidEntry(items[post.error[1].index + 1])
                   /\ \A j \in 1..post.error[1].index : ValidEntry(items[j])

PostAccepted == post.pc = "done" /\ post.response = PostResponse(200)

\* C13 as stated: an accepted POST stores the cached offset of the document
\* stored before it, whatever its own read of that document came to.
C13_CachedOffsetPreserved ==
    (/\ PostAccepted
     /\ hist.store0.kind = "json" /\ hist.store0.doc.shape = "dict"
     /\ hist.store0.doc.cached_timezone_offset # None) =>
        s3_object.doc.cached_timezone_offset = hist.store0.doc.cached_timezone_offset

\* C13, amended: an accepted POST whose read of the existing document succeeded
\* stores the cached offset of the document it read, whatever the payload
\* carries; one whose read failed stores the payload as it was sent.
C13_CachedOffsetPreservedOnRead ==
    PostAccepted =>
        /\ (/\ post.existing # None /\ post.existing[1].shape = "dict"
            /\ post.existing[1].cached_timezone_offset # None) =>
               s3_object.doc.cached_timezone_offset = post.existing[1].cached_timezone_offset
        /\ post.existing = None => s3_object.doc = post.raw.doc

\* The payload carries an offset of its own and the stored document holds 18000.
C13_Witness ==
    /\ PostAccepted
    /\ post.raw.doc = PayloadWithOffset
    /\ post.existing # None
    /\ post.existing[1].cached_timezone_offset = Some(JInt(18000))
    /\ s3_object.doc.cached_timezone_offset = Some(JInt(18000))

(***************************************************************************)
(* SpecService: GET and POST requests against the one stored object, a GET *)
(* and a POST at a time, their reads and puts interleaved                  *)
(***************************************************************************)
ServiceBlobs ==
    { Blob("missing", EmptyDict),
      Blob("json", Dict(DayNight, Some(JList(<<StoredSunrise>>)), None)) }

ServiceEvents == {ev \in Events : ev.method = "GET"}

ServiceGeoAnswers ==
    {Geo("network_error", None, "missing"), Geo("success", Some(-14400), "present")}

ServiceSunAnswers ==
    { Sun("network_error", None),
      Sun("OK", Some(<<ApiTime(6, 45, AM), ApiTime(7, 0, PM),
                       ApiTime(6, 15, AM), ApiTime(7, 30, PM)>>)) }

ServicePayloads == {Payload("demo", <<EarlySunset>>), PayloadWithOffset}

InitService ==
    /\ now = Clock0
    /\ CfgIdle
    /\ FloorIdle
    /\ s3_object \in ServiceBlobs
    /\ event \in ServiceEvents
    /\ get = [NewGet EXCEPT !.pc = "idle"]
    /\ post = NoPost
    /\ hist = History(s3_object)

\* A GET request arrives when none is in progress.
S_BeginGet(ev) ==
    /\ get.pc \in {"idle", "done"}
    /\ hist.requests < MaxRequests
    /\ event' = ev
    /\ get' = NewGet
    /\ hist' = [hist EXCEPT !.requests = hist.requests + 1]
    /\ UNCHANGED <<now, cfgVars, floorVars, s3_object, post>>

\* A POST request arrives when none is in progress.
S_BeginPost(payload) ==
    /\ post.pc \in {"idle", "done"}
    /\ hist.requests < MaxRequests
    /\ post' = PostRequest("POST", SECRET_TOKEN, Blob("json", payload))
    /\ hist' = [hist EXCEPT !.requests = hist.requests + 1]
    /\ UNCHANGED <<now, cfgVars, floorVars, getVars>>

NextService ==
    \/ \E ev \in ServiceEvents : S_BeginGet(ev)
    \/ \E payload \in ServicePayloads : S_BeginPost(payload)
    \/ G_CheckMethod
    \/ G_ReadConfig(FALSE)
    \/ \E answer \in ServiceGeoAnswers \cup {NoGeo} : G_TimezoneOffset(answer)
    \/ \E answer \in ServiceGeoAnswers \cup {NoGeo} : G_DaylightGeo(answer)
    \/ \E answer \in ServiceSunAnswers : G_DaylightSun(answer)
    \/ \E unreachable \in BOOLEAN : G_CacheGet(unreachable)
    \/ G_CachePut(FALSE)
    \/ G_Respond
    \/ P_CheckRequest
    \/ P_ParseAndValidate
    \/ \E unreachable \in BOOLEAN : P_ReadExisting(unreachable)
    \/ P_Put(FALSE)

SpecService == InitService /\ [][NextService]_vars

(***************************************************************************)
(* Properties of the service                                               *)
(***************************************************************************)
\* C15: in every 200 response of a GET request, whatever accepted POSTs stored
\* and whatever the upstream services answered, an entry labelled sunset has a
\* time at or after 19:30.
C15_SunsetNeverBeforeFloor ==
    GetAnswered200 =>
        \A i \in 1..Len(EntriesOf("sunset")) :
            MinutesOf(EntriesOf("sunset")[i].time[1].s) >= FloorMinutesOfDay

\* The stored object after the first k puts.
StoreAfter(k) == IF k = 0 THEN hist.store0 ELSE Blob("json", hist.writes[k].doc)

\* What a cache fill holds after reading the store: its document, or {}.
Snapshot(store) == IF store.kind = "json" THEN store.doc ELSE EmptyDict

\* The cached offset a write finds in the store.
OffsetKept(store) ==
    IF store.kind = "json" /\ store.doc.shape = "dict"
    THEN store.doc.cached_timezone_offset ELSE None

\* w is the put of a cache fill: the document its reader saw (or {} when the
\* read failed) with a looked-up offset set, and nothing of any later put.
CacheFillOf(w) ==
    \E o \in hist.lookups :
        \E seen \in {Snapshot(StoreAfter(w.read_at)), EmptyDict} :
            w.doc = [seen EXCEPT !.cached_timezone_offset = Some(JInt(o))]

\* w is the put of a write request: a payload, with the cached offset its
\* reader saw (when the read succeeded and saw one), and nothing of any later
\* put.
WriteOf(w) ==
    \E payload \in ServicePayloads :
        \/ w.doc = payload
        \/ /\ OffsetKept(StoreAfter(w.read_at)) # None
           /\ w.doc = [payload EXCEPT !.cached_timezone_offset =
                                          OffsetKept(StoreAfter(w.read_at))]

\* C18: reads and puts of concurrent requests are not serialized and the last
\* put wins: the stored object is what the last put wrote, and every put wrote
\* what its request had read earlier, with its own change, whatever was put in
\* between.
C18_LastWriteWins ==
    /\ s3_object = StoreAfter(Len(hist.writes))
    /\ \A k \in 1..Len(hist.writes) :
           /\ hist.writes[k].read_at < k
           /\ IF hist.writes[k].by = "GET" THEN CacheFillOf(hist.writes[k])
              ELSE WriteOf(hist.writes[k])

\* Both lost updates in one run.  The cache fill read before the first POST
\* put and put after it, so the accepted mode is gone; the second POST read
\* before the cache fill put and put after it, so the fresh offset is gone.
C18_Witness ==
    /\ Len(hist.writes) = 3
    /\ hist.writes[1].by = "POST"
    /\ hist.writes[2].by = "GET"
    /\ hist.writes[3].by = "POST"
    /\ hist.writes[2].read_at = 0
    /\ hist.writes[2].doc.mode # hist.writes[1].doc.mode
    /\ hist.writes[2].doc.cached_timezone_offset = Some(JInt(-14400))
    /\ hist.writes[3].read_at = 1
    /\ PostAccepted
    /\ s3_object.doc.cached_timezone_offset = None

\* C20: starting from a stored object without a cached offset, the cached
\* offset of the stored object, when present, is a value some earlier
\* successful geolocation lookup returned.
C20_CachedOffsetProvenance ==
    OffsetKept(s3_object) # None =>
        /\ OffsetKept(s3_object)[1].t = "int"
        /\ OffsetKept(s3_object)[1].n \in hist.lookups

(***************************************************************************)
(* Frame of a GET request on the stored object                             *)
(***************************************************************************)
\* C21: a GET request never changes the stored schedule: whatever its reads
\* of the store and its upstream lookups gave, the mode and brightnessSchedule
\* of the stored object are those stored before the request.
C21_GetKeepsStoredSchedule ==
    /\ s3_object.doc.mode = hist.store0.doc.mode
    /\ s3_object.doc.brightnessSchedule = hist.store0.doc.brightnessSchedule

\* C22: in every GET request that applies the daylight update, the offset
\* under which the unixTime of the daylight and sleep entries is computed is
\* the offset of the geolocation lookup that produced the daylight times, the
\* one written to the cache.
C22_OffsetAgreement ==
    (get.pc \in {"cache_get", "cache_put", "respond", "done"} /\ get.daylight # None) =>
        get.timezone_offset = get.daylight[1].tz_offset

(***************************************************************************)
(* SpecTwilight: update_daylight_times on valid clock times, early and     *)
(* late in the day                                                         *)
(***************************************************************************)
MorningTimes == {hhmm(0, 0), hhmm(6, 45), hhmm(23, 59)}

EveningTimes == {hhmm(h, m) : h \in {0, 19, 23}, m \in {0, 29, 30, 59}}

TwilightCalls ==
    {<<sunrise, sunset, twilight_begin, twilight_end>> :
        sunrise \in MorningTimes, sunset \in EveningTimes,
        twilight_begin \in MorningTimes, twilight_end \in EveningTimes}

\* The config before the call: empty, or loaded with a hand-tuned sunset.
TwilightWires ==
    {Dict(None, None, None), Dict(Some(StrMode("dayNight")), Some(JList(<<EarlySunset>>)), None)}

InitTwilight ==
    /\ now = Clock0
    /\ wire \in TwilightWires
    /\ config = from_dict(wire).cfg
    /\ loaded = config
    /\ prev = config
    /\ last = Call("from_dict", NoArgs, 0, now, FALSE)
    /\ steps = 0
    /\ FloorIdle
    /\ GetIdle
    /\ PostIdle

\* One call of update_daylight_times on the config as loaded.
T_UpdateDaylightTimes(d, offset) ==
    /\ steps = 0
    /\ UpdateDaylightTimes(d, offset)

NextTwilight == \E d \in TwilightCalls : \E offset \in Offsets : T_UpdateDaylightTimes(d, offset)

SpecTwilight == InitTwilight /\ [][NextTwilight]_vars

\* C23: for valid HH:MM inputs, after update_daylight_times every time in the
\* four daylight slots is a valid 24-hour HH:MM; the twilight end is derived
\* only when the sunset was floored to 19:30, and is then "20:00", so the
\* derivation never gives an hour of 24 or more.
C23_TwilightEndNeverRollsOver ==
    last.op = "update_daylight_times" =>
        /\ ~last.raised
        /\ \A l \in DaylightLabels :
               /\ config.attrs[l] # None
               /\ StrictHHMM(config.attrs[l][1].time)
        /\ config.attrs["civil_twilight_end"] # None =>
               config.attrs["civil_twilight_end"][1].time =
                   IF MinutesOf(last.args[2]) < FloorMinutesOfDay THEN hhmm(20, 0)
                   ELSE last.args[4]

\* Sunset at 23:59, where sunset plus 30 minutes would be "24:29": the twilight
\* end stays the one supplied.
C23_Witness ==
    /\ last.op = "update_daylight_times"
    /\ last.args[2] = hhmm(23, 59)
    /\ last.args[4] = hhmm(0, 29)
    /\ config.attrs["sunset"] = Some(ScheduleItem(hhmm(23, 59),
                                     convert_to_unix_timestamp(hhmm(23, 59), 18000, now).val, 60, 90))
    /\ config.attrs["civil_twilight_end"][1].time = hhmm(0, 29)
====
